---- MODULE Spec2Model ----
(***************************************************************************)
(* dnscat2 client session layer (client/session.c): the SYN/MSG/FIN        *)
(* protocol state machine of one session, its sequence numbers and its     *)
(* two byte buffers.                                                       *)
(*                                                                         *)
(* The session's fields are the variables id .. outgoing_data (the name,   *)
(* which only decorates the SYN, and the callback pointers are left out).  *)
(* The remaining                                                           *)
(* variables record what an operation did, so that properties can speak    *)
(* about it: op/pkt (the operation that ran last and the packet it was     *)
(* given), sent (the packets handed to outgoing_data_callback during that  *)
(* operation, in order), acked (the local bytes_acked of session_recv, or  *)
(* NoAck when the call did not compute it), delivered (the data handed to  *)
(* incoming_data_callback during it), calls (the order in which the two    *)
(* callbacks were invoked during it), exit_code (the argument of exit(),   *)
(* or Running), and the history values isn, their_isn, sent_hw, removed    *)
(* (the number of bytes buffer_consume has removed from outgoing_data so   *)
(* far) and received (the number of data bytes of the MSGs accepted so     *)
(* far).  replay, peer and net belong to the surroundings of the session:  *)
(* a MSG the transport keeps to hand it over again later, the state of the *)
(* peer, and the packet in flight in each direction.  They stay as they    *)
(* are under Spec, where the transport hands over arbitrary packets.       *)
(***************************************************************************)
EXTENDS Integers, Sequences, FiniteSets, TLC

VARIABLES id, my_seq, their_seq, state, is_closed, max_packet_size,
          incoming_data, outgoing_data,
          op, pkt, acked, sent, delivered, calls, exit_code,
          isn, their_isn, sent_hw, removed, received,
          replay, peer, net

session == <<id, my_seq, their_seq, state, is_closed, max_packet_size,
             incoming_data, outgoing_data>>

vars == <<id, my_seq, their_seq, state, is_closed, max_packet_size,
          incoming_data, outgoing_data,
          op, pkt, acked, sent, delivered, calls, exit_code,
          isn, their_isn, sent_hw, removed, received,
          replay, peer, net>>

\* the surroundings of the session: a MSG kept for a later replay, the peer
\* and the two directions of the transport
environment == <<replay, peer, net>>

(***************************************************************************)
(* Bounds of the model.                                                    *)
(***************************************************************************)
\* total number of bytes the application passes to session_send in a run
MaxStream == 4
\* total number of data bytes the peer puts into MSG packets in a run
MaxRecvStream == 2
\* max_size given to session_create
MaxPacketSize == 7

(***************************************************************************)
(* Program constants.                                                      *)
(***************************************************************************)
\* uint16_t arithmetic and the "& 0xFFFF" masks
SeqModulus == 65536
\* "rand() % 0xFFFF"
RandModulus == 65535

SESSION_STATE_NEW == "NEW"
SESSION_STATE_ESTABLISHED == "ESTABLISHED"

PACKET_TYPE_SYN == "SYN"
PACKET_TYPE_MSG == "MSG"
PACKET_TYPE_FIN == "FIN"
\* any packet_type value other than the three above
PACKET_TYPE_UNKNOWN == "UNKNOWN"

\* exit_code while the process is running
Running == -1
\* acked when session_recv did not reach the computation of bytes_acked
NoAck == -1

\* framing overhead of a MSG packet, packet_get_msg_size()
packet_get_msg_size == 5

\* values rand() returns in the model: both give 0xFFFE, the largest result
\* of "% 0xFFFF", so that my_seq wraps after two acknowledged bytes
RandOutcomes == {65534, 131069}

\* the range of rand() that the properties of session_create quantify over:
\* two periods of "% 0xFFFF"
RandValues == 0..(2 * RandModulus)

\* "rand() % 0xFFFF"
rand_mod(r) == r % RandModulus

\* the chunks the application passes to session_send, and the data the peer
\* puts into a MSG
Chunks == {<<>>, <<"A">>, <<"B", "C">>}
PeerChunks == {<<>>, <<"x">>, <<"y", "z">>}

\* sequence numbers a peer's SYN carries
SynSeqs == {100, 65535}

(***************************************************************************)
(* Sequences of length at most n over S.                                   *)
(***************************************************************************)
SeqsUpTo(S, n) == UNION {[1..k -> S] : k \in 0..n}

Min(a, b) == IF a < b THEN a ELSE b
Max(a, b) == IF a < b THEN b ELSE a

(***************************************************************************)
(* The byte buffer (libs/buffer): the bytes added so far and the read      *)
(* position; the bytes before position have been consumed.                 *)
(***************************************************************************)
buffer_create == [data |-> <<>>, position |-> 0]

buffer_add_bytes(buffer, bytes) ==
    [buffer EXCEPT !.data = buffer.data \o bytes]

buffer_get_remaining_bytes(buffer) == Len(buffer.data) - buffer.position

\* buffer_read_remaining_bytes(buffer, &length, max_bytes, FALSE):
\* the next max_bytes bytes at most, the position stays
buffer_read_remaining_bytes(buffer, max_bytes) ==
    SubSeq(buffer.data, buffer.position + 1,
           buffer.position + Min(max_bytes, buffer_get_remaining_bytes(buffer)))

buffer_consume(buffer, count) ==
    [buffer EXCEPT !.position = buffer.position + count]

buffer_clear(buffer) == [data |-> <<>>, position |-> 0]

\* the bytes of the buffer that have not been consumed
Remaining(buffer) == SubSeq(buffer.data, buffer.position + 1, Len(buffer.data))

(***************************************************************************)
(* Packets (packet_t).  Every packet has all fields; those a type does not *)
(* have hold a default.                                                    *)
(***************************************************************************)
Packet(type, sid, seq, ack, data) ==
    [packet_type |-> type, session_id |-> sid, seq |-> seq, ack |-> ack,
     data |-> data]

\* packet_create_syn(id, seq, 0)
packet_create_syn(sid, seq) == Packet(PACKET_TYPE_SYN, sid, seq, 0, <<>>)
packet_create_msg(sid, seq, ack, data) == Packet(PACKET_TYPE_MSG, sid, seq, ack, data)
packet_create_fin(sid) == Packet(PACKET_TYPE_FIN, sid, 0, 0, <<>>)

\* session_recv(session, NULL): the packet could not be parsed
NULL == Packet("NULL", 0, 0, 0, <<>>)
\* pkt after an operation that takes no packet
NoPacket == Packet("NONE", 0, 0, 0, <<>>)

(***************************************************************************)
(* do_send_stuff: the packet it hands to session_send_packet, as a         *)
(* function of the session fields it reads.                                *)
(***************************************************************************)
\* variant: the framing overhead is not subtracted
max_packet_payload_whole(max_size) == max_size
max_packet_payload(max_size) == max_size - packet_get_msg_size

\* variant: no switch on the state, a MSG is built in every state
do_send_stuff_nostate(st, sid, seq, ack, out, max_size) ==
    packet_create_msg(sid, seq, ack,
        buffer_read_remaining_bytes(out, max_packet_payload(max_size)))

do_send_stuff(st, sid, seq, ack, out, max_size) ==
    IF st = SESSION_STATE_NEW
    THEN packet_create_syn(sid, seq)
    ELSE packet_create_msg(sid, seq, ack,
             buffer_read_remaining_bytes(out, max_packet_payload(max_size)))

\* send_final_fin
send_final_fin(sid) == packet_create_fin(sid)

(***************************************************************************)
(* History: the number of bytes of the outgoing stream removed from the    *)
(* buffer so far, and the stream offset up to which bytes have been handed *)
(* to the send callback inside MSG packets.                                *)
(***************************************************************************)
Consumed(seq, first) == (seq - first) % SeqModulus

SentUpTo(hw, packets, first) ==
    LET Ends == {Consumed(packets[i].seq, first) + Len(packets[i].data) :
                   i \in {j \in 1..Len(packets) : packets[j].packet_type = PACKET_TYPE_MSG}}
    IN  IF Ends = {} THEN hw ELSE Max(hw, CHOOSE e \in Ends : \A f \in Ends : f <= e)

\* the callbacks an operation invoked, in order: the receive callback is
\* called inside the switch of session_recv, the send callback after it
CallOrder(deliveries, packets) ==
    [i \in 1..Len(deliveries) |-> "incoming_data_callback"]
    \o [i \in 1..Len(packets) |-> "outgoing_data_callback"]

(***************************************************************************)
(* session_create                                                          *)
(***************************************************************************)
Init ==
    /\ id \in {rand_mod(r) : r \in RandOutcomes}
    /\ my_seq \in {rand_mod(r) : r \in RandOutcomes}
    /\ state = SESSION_STATE_NEW
    /\ their_seq = 0
    /\ is_closed = FALSE
    /\ max_packet_size = MaxPacketSize
    /\ incoming_data = buffer_create
    /\ outgoing_data = buffer_create
    /\ op = "create"
    /\ pkt = NoPacket
    /\ acked = NoAck
    /\ sent = <<>>
    /\ delivered = <<>>
    /\ calls = <<>>
    /\ exit_code = Running
    /\ isn = my_seq
    /\ their_isn = 0
    /\ sent_hw = 0
    /\ removed = 0
    /\ received = 0
    /\ replay = NoPacket
    /\ peer = [seq |-> 100, ack |-> NoAck]
    /\ net = [c2p |-> NoPacket, p2c |-> NoPacket]

(***************************************************************************)
(* session_send                                                            *)
(***************************************************************************)
session_send(data) ==
    /\ exit_code = Running
    /\ outgoing_data' = buffer_add_bytes(outgoing_data, data)
    /\ sent' = <<do_send_stuff(state, id, my_seq, their_seq, outgoing_data', max_packet_size)>>
    /\ delivered' = <<>>
    /\ op' = "send"
    /\ pkt' = NoPacket
    /\ acked' = NoAck
    /\ calls' = CallOrder(delivered', sent')
    /\ sent_hw' = SentUpTo(sent_hw, sent', isn)
    /\ UNCHANGED <<id, my_seq, their_seq, state, is_closed, max_packet_size,
                   incoming_data, exit_code, isn, their_isn, removed, received>>

(***************************************************************************)
(* session_close                                                           *)
(***************************************************************************)
\* variant: "||" in place of "&&"
buffers_empty_either(incoming, outgoing) ==
    \/ buffer_get_remaining_bytes(incoming) = 0
    \/ buffer_get_remaining_bytes(outgoing) = 0

\* "no data is queued" in session_close and session_do_actions
buffers_empty(incoming, outgoing) ==
    /\ buffer_get_remaining_bytes(incoming) = 0
    /\ buffer_get_remaining_bytes(outgoing) = 0

session_close ==
    /\ exit_code = Running
    /\ is_closed' = TRUE
    /\ IF buffers_empty(incoming_data, outgoing_data)
       THEN /\ sent' = <<send_final_fin(id)>>
            /\ exit_code' = 0
       ELSE /\ sent' = <<>>
            /\ exit_code' = exit_code
    /\ op' = "close"
    /\ pkt' = NoPacket
    /\ acked' = NoAck
    /\ delivered' = <<>>
    /\ calls' = CallOrder(delivered', sent')
    /\ UNCHANGED <<id, my_seq, their_seq, state, max_packet_size,
                   incoming_data, outgoing_data, isn, their_isn, sent_hw,
                   removed, received>>

(***************************************************************************)
(* clean_up_buffers and session_do_actions                                 *)
(***************************************************************************)
\* variant: the buffer is cleared whether or not it is empty
clean_up_buffers_always(buffer) == buffer_clear(buffer)

clean_up_buffers(buffer) ==
    IF buffer_get_remaining_bytes(buffer) = 0 THEN buffer_clear(buffer) ELSE buffer

session_do_actions ==
    /\ exit_code = Running
    /\ outgoing_data' = clean_up_buffers(outgoing_data)
    /\ incoming_data' = clean_up_buffers(incoming_data)
    /\ LET packet == do_send_stuff(state, id, my_seq, their_seq, outgoing_data', max_packet_size)
       IN  IF is_closed /\ buffers_empty(incoming_data', outgoing_data')
           THEN /\ sent' = <<packet, send_final_fin(id)>>
                /\ exit_code' = 0
           ELSE /\ sent' = <<packet>>
                /\ exit_code' = exit_code
    /\ op' = "do_actions"
    /\ pkt' = NoPacket
    /\ acked' = NoAck
    /\ delivered' = <<>>
    /\ calls' = CallOrder(delivered', sent')
    /\ sent_hw' = SentUpTo(sent_hw, sent', isn)
    /\ UNCHANGED <<id, my_seq, their_seq, state, is_closed, max_packet_size,
                   isn, their_isn, removed, received>>

(***************************************************************************)
(* session_recv                                                            *)
(***************************************************************************)
\* variant: the session id is not compared
id_matches_any(packet_id, session_id) == TRUE

\* "packet->session_id != session->id" negated
id_matches(packet_id, session_id) == packet_id = session_id

\* variant: a SYN is adopted in every state
syn_adopted_anystate(st, type) == type = PACKET_TYPE_SYN

\* the SYN that establishes the session
syn_adopted(st, type) == st = SESSION_STATE_NEW /\ type = PACKET_TYPE_SYN

\* variant: the SEQ is not validated
seq_valid_any(seq, expected) == TRUE

\* "packet->body.msg.seq == session->their_seq"
seq_valid(seq, expected) == seq = expected

\* "uint16_t bytes_acked = packet->body.msg.ack - session->my_seq"
bytes_acked(ack, seq) == (ack - seq) % SeqModulus

\* variant: the bound is off by one
ack_valid_offbyone(nbytes, outgoing) == nbytes <= buffer_get_remaining_bytes(outgoing) + 1

\* "bytes_acked <= buffer_get_remaining_bytes(session->outgoing_data)"
\* variant: "<" in place of "<="
ack_valid_strict(nbytes, outgoing) == nbytes < buffer_get_remaining_bytes(outgoing)

ack_valid(nbytes, outgoing) == nbytes <= buffer_get_remaining_bytes(outgoing)

\* variant: the sum is not masked
advance_their_seq_nomask(seq, data_length) == seq + data_length

\* "(session->their_seq + packet->body.msg.data_length) & 0xFFFF"
advance_their_seq(seq, data_length) == (seq + data_length) % SeqModulus

\* variant: my_seq is not advanced
advance_my_seq_never(seq, nbytes) == seq

\* variant: my_seq is incremented by one
advance_my_seq_one(seq, nbytes) == IF nbytes # 0 THEN (seq + 1) % SeqModulus ELSE seq

\* "if(bytes_acked != 0) session->my_seq = (session->my_seq + bytes_acked) & 0xFFFF"
advance_my_seq(seq, nbytes) == IF nbytes # 0 THEN (seq + nbytes) % SeqModulus ELSE seq

\* the MSG branch of SESSION_STATE_ESTABLISHED is taken and the SEQ is valid
seq_checked(p) ==
    /\ p # NULL
    /\ id_matches(p.session_id, id)
    /\ state = SESSION_STATE_ESTABLISHED
    /\ p.packet_type = PACKET_TYPE_MSG
    /\ seq_valid(p.seq, their_seq)

\* ... and the ACK is valid too
msg_accepted(p) ==
    /\ seq_checked(p)
    /\ ack_valid(bytes_acked(p.ack, my_seq), outgoing_data)

\* variant: a FIN received in SESSION_STATE_NEW is only logged
recv_exit_fin_new_ignored(p) ==
    IF p = NULL THEN 1
    ELSE IF ~id_matches(p.session_id, id) THEN Running
    ELSE IF p.packet_type \in {PACKET_TYPE_SYN, PACKET_TYPE_MSG} THEN Running
    ELSE IF p.packet_type = PACKET_TYPE_FIN
         THEN (IF state = SESSION_STATE_NEW THEN Running ELSE 0)
    ELSE IF state = SESSION_STATE_NEW THEN 1
    ELSE 0

\* variant: no exit() after send_final_fin for an unknown packet type
recv_exit_unknown_returns(p) ==
    IF p = NULL THEN 1
    ELSE IF ~id_matches(p.session_id, id) THEN Running
    ELSE IF p.packet_type \in {PACKET_TYPE_SYN, PACKET_TYPE_MSG} THEN Running
    ELSE IF p.packet_type = PACKET_TYPE_FIN THEN 0
    ELSE IF state = SESSION_STATE_NEW THEN 1
    ELSE Running

\* the calls of exit(): the exit status, or Running when the call returns
recv_exit(p) ==
    IF p = NULL THEN 1
    ELSE IF ~id_matches(p.session_id, id) THEN Running
    ELSE IF p.packet_type \in {PACKET_TYPE_SYN, PACKET_TYPE_MSG} THEN Running
    ELSE IF p.packet_type = PACKET_TYPE_FIN THEN 0
    ELSE IF state = SESSION_STATE_NEW THEN 1
    ELSE 0

\* send_final_fin is called: an unknown packet type in SESSION_STATE_ESTABLISHED
recv_sends_fin(p) ==
    /\ p # NULL
    /\ id_matches(p.session_id, id)
    /\ state = SESSION_STATE_ESTABLISHED
    /\ p.packet_type \notin {PACKET_TYPE_SYN, PACKET_TYPE_MSG, PACKET_TYPE_FIN}

\* variant: the flag is not tested
resend_needed_noflag(outgoing, new_bytes_acked) ==
    buffer_get_remaining_bytes(outgoing) > 0

\* "buffer_get_remaining_bytes(session->outgoing_data) > 0 && new_bytes_acked"
resend_needed(outgoing, new_bytes_acked) ==
    buffer_get_remaining_bytes(outgoing) > 0 /\ new_bytes_acked

session_recv(p) ==
    /\ exit_code = Running
    /\ LET adopt    == p # NULL /\ id_matches(p.session_id, id) /\ syn_adopted(state, p.packet_type)
           accept   == msg_accepted(p)
           nbytes   == bytes_acked(p.ack, my_seq)
           new_bytes_acked == accept /\ nbytes # 0
       IN  /\ state' = IF adopt THEN SESSION_STATE_ESTABLISHED ELSE state
           /\ their_seq' = IF adopt THEN p.seq
                           ELSE IF accept THEN advance_their_seq(their_seq, Len(p.data))
                           ELSE their_seq
           /\ their_isn' = IF adopt THEN p.seq ELSE their_isn
           /\ outgoing_data' = IF accept THEN buffer_consume(outgoing_data, nbytes)
                               ELSE outgoing_data
           /\ my_seq' = IF accept THEN advance_my_seq(my_seq, nbytes) ELSE my_seq
           /\ removed' = IF accept THEN removed + nbytes ELSE removed
           /\ received' = IF accept THEN received + Len(p.data) ELSE received
           /\ delivered' = IF accept /\ Len(p.data) > 0 THEN <<p.data>> ELSE <<>>
           /\ exit_code' = recv_exit(p)
           /\ sent' = IF recv_sends_fin(p) THEN <<send_final_fin(id)>>
                      ELSE IF exit_code' = Running
                              /\ resend_needed(outgoing_data', new_bytes_acked)
                      THEN <<do_send_stuff(state', id, my_seq', their_seq', outgoing_data',
                                           max_packet_size)>>
                      ELSE <<>>
    /\ op' = "recv"
    /\ pkt' = p
    /\ acked' = IF seq_checked(p) THEN bytes_acked(p.ack, my_seq) ELSE NoAck
    /\ calls' = CallOrder(delivered', sent')
    /\ sent_hw' = SentUpTo(sent_hw, sent', isn)
    /\ UNCHANGED <<id, is_closed, max_packet_size, incoming_data, isn>>

(***************************************************************************)
(* The packets the transport hands to session_recv in the current state.   *)
(***************************************************************************)
\* a session id other than sid
OtherId(sid) == (sid + 1) % SeqModulus

MsgSeqs == {their_seq, (their_seq - 1) % SeqModulus}
MsgAcks == {(my_seq + k) % SeqModulus :
               k \in (-1)..(buffer_get_remaining_bytes(outgoing_data) + 1)}
MsgData == {d \in PeerChunks :
               Consumed(their_seq, their_isn) + Len(d) <= MaxRecvStream}

RecvPackets ==
    {NULL}
    \cup {Packet(PACKET_TYPE_SYN, id, s, 0, <<>>) : s \in SynSeqs}
    \cup {Packet(PACKET_TYPE_MSG, id, s, a, d) : s \in MsgSeqs, a \in MsgAcks, d \in MsgData}
    \cup {Packet(t, id, 0, 0, <<>>) : t \in {PACKET_TYPE_FIN, PACKET_TYPE_UNKNOWN}}
    \cup {Packet(PACKET_TYPE_SYN, OtherId(id), 100, 0, <<>>)}
    \cup {Packet(PACKET_TYPE_MSG, OtherId(id), their_seq,
                 (my_seq + buffer_get_remaining_bytes(outgoing_data)) % SeqModulus,
                 <<"x">>)}
    \cup {Packet(t, OtherId(id), 0, 0, <<>>) : t \in {PACKET_TYPE_FIN, PACKET_TYPE_UNKNOWN}}

\* the application passes at most MaxStream bytes to session_send in a run
StreamRoom(data) ==
    Consumed(my_seq, isn) + buffer_get_remaining_bytes(outgoing_data) + Len(data) <= MaxStream

Next ==
    \/ \E data \in Chunks : StreamRoom(data) /\ session_send(data) /\ UNCHANGED environment
    \/ \E p \in RecvPackets : session_recv(p) /\ UNCHANGED environment
    \/ session_do_actions /\ UNCHANGED environment
    \/ session_close /\ UNCHANGED environment

Spec == Init /\ [][Next]_vars

(***************************************************************************)
(* Replayed packets.  The transport may hand session_recv a packet it has  *)
(* handed over before (a duplicated datagram): replay remembers one MSG    *)
(* that session_recv accepted, and the packet stays among the inputs of    *)
(* session_recv from then on.  The application may also queue one chunk of *)
(* 0xFFFF bytes: session_send and buffer_add_bytes put no limit on the     *)
(* length of the outgoing buffer.                                          *)
(***************************************************************************)
LongChunk == [i \in 1..(SeqModulus - 1) |-> "A"]

\* the long chunk is passed to session_send at most once in a run, when the
\* chunks passed before it have been acknowledged
LongRoom ==
    /\ Len(outgoing_data.data) < Len(LongChunk)
    /\ buffer_get_remaining_bytes(outgoing_data) = 0
    /\ removed > 0

\* fresh acknowledgements of the peer lie within the first MaxStream bytes
FreshAcks ==
    {(my_seq + k) % SeqModulus :
        k \in 0..Min(buffer_get_remaining_bytes(outgoing_data), MaxStream - removed)}

ReplayPackets ==
    {Packet(PACKET_TYPE_SYN, id, 100, 0, <<>>)}
    \cup {Packet(PACKET_TYPE_MSG, id, their_seq, a, <<>>) : a \in FreshAcks}
    \cup (IF replay = NoPacket THEN {} ELSE {replay})

\* the packet session_recv may be handed again later: a MSG it has just
\* accepted that acknowledged some bytes, or the one remembered before
Remembered(p) ==
    IF replay = NoPacket /\ msg_accepted(p) /\ bytes_acked(p.ack, my_seq) > 0
    THEN {replay, p}
    ELSE {replay}

ReplayNext ==
    \/ \E data \in Chunks : StreamRoom(data) /\ session_send(data) /\ UNCHANGED environment
    \/ LongRoom /\ session_send(LongChunk) /\ UNCHANGED environment
    \/ \E p \in ReplayPackets :
          /\ session_recv(p)
          /\ replay' \in Remembered(p)
          /\ UNCHANGED <<peer, net>>
    \/ session_do_actions /\ UNCHANGED environment

SpecReplay == Init /\ [][ReplayNext]_vars

(***************************************************************************)
(* The session with a transport and a peer.  Each direction of the         *)
(* transport holds the last packet put on it (a packet put on a direction  *)
(* that still holds one replaces it: the older packet is lost).  The       *)
(* outgoing callback puts the packets of an operation on net.c2p, and      *)
(* session_recv is handed the packet on net.p2c.  The peer answers a SYN   *)
(* with a SYN carrying its sequence number, and a MSG with a MSG carrying  *)
(* that sequence number and an ACK of every byte it has received in order; *)
(* it sends no data and ignores a FIN.                                     *)
(***************************************************************************)
\* session_send_packet: the packets of the operation reach the transport
Transmit(packets, slot) ==
    IF packets = <<>> THEN slot ELSE packets[Len(packets)]

LiveSend ==
    /\ \E data \in Chunks : StreamRoom(data) /\ session_send(data)
    /\ net' = [net EXCEPT !.c2p = Transmit(sent', @)]
    /\ UNCHANGED <<replay, peer>>

LiveClose ==
    /\ session_close
    /\ net' = [net EXCEPT !.c2p = Transmit(sent', @)]
    /\ UNCHANGED <<replay, peer>>

LiveDoActions ==
    /\ session_do_actions
    /\ net' = [net EXCEPT !.c2p = Transmit(sent', @)]
    /\ UNCHANGED <<replay, peer>>

LiveRecv ==
    /\ net.p2c # NoPacket
    /\ session_recv(net.p2c)
    /\ net' = [c2p |-> Transmit(sent', net.c2p), p2c |-> NoPacket]
    /\ UNCHANGED <<replay, peer>>

\* the peer takes the packet on net.c2p and puts its answer on net.p2c
PeerAnswer ==
    /\ net.c2p # NoPacket
    /\ LET p == net.c2p
           known == peer.ack # NoAck
           ack == IF p.packet_type = PACKET_TYPE_SYN /\ ~known THEN p.seq
                  ELSE IF p.packet_type = PACKET_TYPE_MSG /\ known /\ p.seq = peer.ack
                  THEN (peer.ack + Len(p.data)) % SeqModulus
                  ELSE peer.ack
           answer == IF p.packet_type = PACKET_TYPE_SYN
                     THEN packet_create_syn(p.session_id, peer.seq)
                     ELSE IF p.packet_type = PACKET_TYPE_MSG /\ known
                     THEN packet_create_msg(p.session_id, peer.seq, ack, <<>>)
                     ELSE net.p2c
       IN  /\ peer' = [peer EXCEPT !.ack = ack]
           /\ net' = [c2p |-> NoPacket, p2c |-> answer]
    /\ UNCHANGED <<session, op, pkt, acked, sent, delivered, calls, exit_code,
                   isn, their_isn, sent_hw, removed, received, replay>>

LiveNext ==
    \/ LiveSend
    \/ LiveClose
    \/ LiveDoActions
    \/ LiveRecv
    \/ PeerAnswer

\* the owner calls session_do_actions again and again, the transport hands
\* over the packet it holds, and the peer answers
LiveSpec ==
    /\ Init
    /\ [][LiveNext]_vars
    /\ WF_vars(LiveDoActions)
    /\ WF_vars(LiveRecv)
    /\ WF_vars(PeerAnswer)

(***************************************************************************)
(* Vocabulary of the properties.                                           *)
(***************************************************************************)
\* the operation that has just run is session_recv of a parsed packet of type
\* t carrying the session's id
Received(t) ==
    /\ op' = "recv"
    /\ pkt'.packet_type = t
    /\ pkt'.session_id = id

\* (ack - my_seq) modulo 2^16 of the packet just received, before the call
AckedBy(p) == (p.ack - my_seq) % SeqModulus

\* the first n elements of s, and s without them
Take(s, n) == [i \in 1..n |-> s[i]]
Drop(s, n) == [i \in 1..(Len(s) - n) |-> s[i + n]]

\* the packets of a given type among those sent by the last operation
SentOfType(t) == {i \in 1..Len(sent) : sent[i].packet_type = t}

Terminated == exit_code # Running

(***************************************************************************)
(* C1: the state changes only from NEW to ESTABLISHED, only in             *)
(* session_recv of a SYN with the session's id, and that step sets         *)
(* their_seq to the SYN's seq; no step leaves ESTABLISHED (so the change   *)
(* happens at most once), and a SYN received while ESTABLISHED changes     *)
(* neither state nor their_seq.                                            *)
(***************************************************************************)
C1_EstablishedOnce ==
    [][ /\ state' # state =>
            /\ state = SESSION_STATE_NEW
            /\ state' = SESSION_STATE_ESTABLISHED
            /\ Received(PACKET_TYPE_SYN)
            /\ their_seq' = pkt'.seq
        /\ state = SESSION_STATE_ESTABLISHED => state' = SESSION_STATE_ESTABLISHED
        /\ (state = SESSION_STATE_ESTABLISHED /\ Received(PACKET_TYPE_SYN)) =>
            /\ state' = state
            /\ their_seq' = their_seq
      ]_vars

\* a SYN with another seq has arrived at an established session
C1_Witness ==
    /\ state = SESSION_STATE_ESTABLISHED
    /\ op = "recv"
    /\ pkt.packet_type = PACKET_TYPE_SYN
    /\ pkt.session_id = id
    /\ pkt.seq # their_seq

(***************************************************************************)
(* C2: while the state is NEW no MSG is handed to the send callback: the   *)
(* send path run by session_send and session_do_actions emits one SYN with *)
(* the session's id and my_seq and no data, whatever is queued; and a      *)
(* received MSG with the session's id changes no session field, delivers   *)
(* nothing, and does not end the process.                                  *)
(***************************************************************************)
C2_NoMsgWhileNew ==
    [][ state = SESSION_STATE_NEW =>
          /\ \A i \in 1..Len(sent') : sent'[i].packet_type # PACKET_TYPE_MSG
          /\ op' \in {"send", "do_actions"} =>
                /\ Len(sent') >= 1
                /\ sent'[1] = [packet_type |-> PACKET_TYPE_SYN, session_id |-> id,
                               seq |-> my_seq, ack |-> 0, data |-> <<>>]
                /\ \A i \in 2..Len(sent') : sent'[i].packet_type = PACKET_TYPE_FIN
          /\ Received(PACKET_TYPE_MSG) =>
                /\ UNCHANGED session
                /\ delivered' = <<>>
                /\ sent' = <<>>
                /\ exit_code' = Running
      ]_vars

\* a MSG has arrived at a NEW session that has data queued
C2_Witness ==
    /\ state = SESSION_STATE_NEW
    /\ op = "recv"
    /\ pkt.packet_type = PACKET_TYPE_MSG
    /\ pkt.session_id = id
    /\ buffer_get_remaining_bytes(outgoing_data) >= 2

(***************************************************************************)
(* C3: in ESTABLISHED, a MSG with the session's id, seq = their_seq and    *)
(* n = (ack - my_seq) mod 2^16 at most the number of queued bytes removes  *)
(* exactly the first n queued bytes, keeps the rest in order, and sets     *)
(* my_seq to (my_seq + n) mod 2^16.                                        *)
(***************************************************************************)
C3_AckRemovesPrefix ==
    [][ ( /\ state = SESSION_STATE_ESTABLISHED
          /\ Received(PACKET_TYPE_MSG)
          /\ pkt'.seq = their_seq
          /\ AckedBy(pkt') <= Len(Remaining(outgoing_data)) ) =>
            /\ Remaining(outgoing_data') = Drop(Remaining(outgoing_data), AckedBy(pkt'))
            /\ my_seq' = (my_seq + AckedBy(pkt')) % SeqModulus
      ]_vars

\* an ack has removed part of the queue: the rest was sent again at once
C3_Witness ==
    /\ op = "recv"
    /\ pkt.packet_type = PACKET_TYPE_MSG
    /\ acked > 0
    /\ Len(sent) = 1
    /\ sent[1].packet_type = PACKET_TYPE_MSG
    /\ Len(sent[1].data) > 0

(***************************************************************************)
(* C4: in ESTABLISHED, a MSG with the session's id and seq = their_seq     *)
(* whose (ack - my_seq) mod 2^16 exceeds the number of queued bytes leaves *)
(* outgoing_data, my_seq and their_seq as they were, delivers nothing      *)
(* (even if it carries data) and emits no packet.                          *)
(***************************************************************************)
C4_BadAckIgnored ==
    [][ ( /\ state = SESSION_STATE_ESTABLISHED
          /\ Received(PACKET_TYPE_MSG)
          /\ pkt'.seq = their_seq
          /\ AckedBy(pkt') > Len(Remaining(outgoing_data)) ) =>
            /\ UNCHANGED <<outgoing_data, my_seq, their_seq>>
            /\ delivered' = <<>>
            /\ sent' = <<>>
      ]_vars

\* a MSG with data and an ack beyond the queue has been received
C4_Witness ==
    /\ state = SESSION_STATE_ESTABLISHED
    /\ op = "recv"
    /\ pkt.packet_type = PACKET_TYPE_MSG
    /\ pkt.session_id = id
    /\ pkt.seq = their_seq
    /\ Len(pkt.data) > 0
    /\ acked > buffer_get_remaining_bytes(outgoing_data)
    /\ buffer_get_remaining_bytes(outgoing_data) > 0

(***************************************************************************)
(* C5: an acknowledgment never removes a byte that has not been handed to  *)
(* the send callback inside a MSG: the number of bytes removed from the    *)
(* outgoing buffer never exceeds the stream offset up to which bytes have  *)
(* been sent.                                                              *)
(***************************************************************************)
C5_OnlySentBytesAcked == Consumed(my_seq, isn) <= sent_hw

(***************************************************************************)
(* C6: the receive callback is invoked only by session_recv in             *)
(* ESTABLISHED for a MSG with the session's id, data, seq = their_seq and  *)
(* a valid ack; it gets exactly the data of that MSG, and their_seq        *)
(* advances by the data length mod 2^16.  A MSG with another seq changes   *)
(* nothing and delivers nothing, and the MSG just delivered is not         *)
(* delivered again when it is received a second time.                      *)
(***************************************************************************)
C6_InOrderDelivery ==
    [][ /\ delivered' # <<>> =>
            /\ state = SESSION_STATE_ESTABLISHED
            /\ Received(PACKET_TYPE_MSG)
            /\ pkt'.data # <<>>
            /\ pkt'.seq = their_seq
            /\ AckedBy(pkt') <= Len(Remaining(outgoing_data))
            /\ delivered' = <<pkt'.data>>
            /\ their_seq' = (their_seq + Len(pkt'.data)) % SeqModulus
        /\ (state = SESSION_STATE_ESTABLISHED /\ Received(PACKET_TYPE_MSG)
               /\ pkt'.seq # their_seq) =>
            /\ UNCHANGED session
            /\ delivered' = <<>>
            /\ sent' = <<>>
        /\ (delivered # <<>> /\ op' = "recv" /\ pkt' = pkt) => delivered' = <<>>
      ]_vars

\* the second MSG of the peer's stream has been delivered after their_seq wrapped
C6_Witness ==
    /\ delivered # <<>>
    /\ delivered[1] = pkt.data
    /\ their_seq < their_isn
    /\ pkt.seq < their_isn

(***************************************************************************)
(* C7: session_recv of a packet of any type whose session id is not the    *)
(* session's changes no session field in either state, delivers nothing,   *)
(* emits nothing and does not end the process.                             *)
(***************************************************************************)
C7_ForeignIdIgnored ==
    [][ ( /\ op' = "recv"
          /\ pkt' # NULL
          /\ pkt'.session_id # id ) =>
            /\ UNCHANGED session
            /\ delivered' = <<>>
            /\ sent' = <<>>
            /\ exit_code' = Running
      ]_vars

\* a MSG for another session that this session would have accepted
C7_Witness ==
    /\ state = SESSION_STATE_ESTABLISHED
    /\ op = "recv"
    /\ pkt.packet_type = PACKET_TYPE_MSG
    /\ pkt.session_id # id
    /\ pkt.seq = their_seq
    /\ pkt.ack # my_seq
    /\ pkt.ack = (my_seq + buffer_get_remaining_bytes(outgoing_data)) % SeqModulus

(***************************************************************************)
(* C8: sequence arithmetic is modulo 2^16: bytes_acked is the value in     *)
(* 0..65535 that added to my_seq gives ack modulo 2^16; an accepted MSG    *)
(* leaves my_seq = ack and their_seq advanced by the data length modulo    *)
(* 2^16; my_seq and their_seq stay within 0..65535.                        *)
(***************************************************************************)
C8_SeqArithmetic ==
    [][ /\ my_seq' \in 0..(SeqModulus - 1)
        /\ their_seq' \in 0..(SeqModulus - 1)
        /\ acked' # NoAck =>
            /\ acked' \in 0..(SeqModulus - 1)
            /\ (my_seq + acked' - pkt'.ack) % SeqModulus = 0
            /\ acked' <= Len(Remaining(outgoing_data)) =>
                  /\ my_seq' = pkt'.ack
                  /\ their_seq' - their_seq \in {Len(pkt'.data), Len(pkt'.data) - SeqModulus}
      ]_vars

\* my_seq = 0xFFFE and ack = 0x0002: four bytes acknowledged
C8_Witness ==
    /\ op = "recv"
    /\ acked = 4
    /\ pkt.ack = 2
    /\ my_seq = 2
    /\ outgoing_data.position = 4

(***************************************************************************)
(* C9: in ESTABLISHED every run of the send path (session_send,            *)
(* session_do_actions, and the re-send of session_recv) hands the send     *)
(* callback exactly one MSG with the session's id, seq = my_seq, ack =     *)
(* their_seq and the first min(max_packet_payload, queued) bytes of the    *)
(* outgoing buffer, an empty MSG when nothing is queued; session_send and  *)
(* session_do_actions remove no byte from the buffer.                      *)
(***************************************************************************)
C9_EstablishedSendsMsg ==
    [][ ( /\ state' = SESSION_STATE_ESTABLISHED
          /\ \/ op' \in {"send", "do_actions"}
             \/ op' = "recv" /\ SentOfType(PACKET_TYPE_MSG)' # {} ) =>
            /\ Cardinality(SentOfType(PACKET_TYPE_MSG)') = 1
            /\ sent'[1] = [packet_type |-> PACKET_TYPE_MSG, session_id |-> id',
                           seq |-> my_seq', ack |-> their_seq',
                           data |-> Take(Remaining(outgoing_data'),
                                         Min(max_packet_size' - packet_get_msg_size,
                                             Len(Remaining(outgoing_data'))))]
            /\ op' = "do_actions" => Remaining(outgoing_data') = Remaining(outgoing_data)
            /\ op' = "send" =>
                  /\ Len(Remaining(outgoing_data')) >= Len(Remaining(outgoing_data))
                  /\ Take(Remaining(outgoing_data'), Len(Remaining(outgoing_data)))
                        = Remaining(outgoing_data)
      ]_vars

\* more than max_packet_payload bytes are queued and a MSG has been sent
C9_Witness ==
    /\ state = SESSION_STATE_ESTABLISHED
    /\ op = "do_actions"
    /\ buffer_get_remaining_bytes(outgoing_data) > max_packet_size - packet_get_msg_size
    /\ Len(sent) = 1
    /\ Len(sent[1].data) = max_packet_size - packet_get_msg_size

(***************************************************************************)
(* C10: a final FIN is sent, or the session terminates on a parsed packet  *)
(* or an owner call, only when both buffers are empty and either the peer  *)
(* has sent a FIN or is_closed is set.                                     *)
(***************************************************************************)
C10_TeardownOnlyWhenDrained ==
    ( /\ pkt # NULL
      /\ Terminated \/ SentOfType(PACKET_TYPE_FIN) # {} ) =>
        /\ buffers_empty(incoming_data, outgoing_data)
        /\ \/ is_closed
           \/ op = "recv" /\ pkt.packet_type = PACKET_TYPE_FIN /\ pkt.session_id = id

(***************************************************************************)
(* C11: after session_close with data queued, no FIN is emitted by any     *)
(* operation while outgoing_data is not empty; once it is empty the next   *)
(* session_do_actions emits the FIN and ends the process, and no operation *)
(* emits more than one FIN.                                                *)
(***************************************************************************)
C11_FinDeferredUntilDrained ==
    /\ (is_closed /\ buffer_get_remaining_bytes(outgoing_data) > 0) =>
            SentOfType(PACKET_TYPE_FIN) = {}
    /\ (op = "do_actions" /\ is_closed /\ buffers_empty(incoming_data, outgoing_data)) =>
            /\ exit_code = 0
            /\ sent[Len(sent)].packet_type = PACKET_TYPE_FIN
    /\ Cardinality(SentOfType(PACKET_TYPE_FIN)) <= 1

(***************************************************************************)
(* C12: session_close sets is_closed; it emits the FIN and ends the        *)
(* process in the same call exactly when both buffers are empty, in NEW as *)
(* in ESTABLISHED; otherwise it emits nothing and changes no other field.  *)
(***************************************************************************)
C12_CloseImmediateIffDrained ==
    [][ op' = "close" =>
          /\ is_closed'
          /\ UNCHANGED <<id, my_seq, their_seq, state, max_packet_size,
                         incoming_data, outgoing_data>>
          /\ delivered' = <<>>
          /\ IF Remaining(incoming_data) = <<>> /\ Remaining(outgoing_data) = <<>>
             THEN /\ sent' = <<[packet_type |-> PACKET_TYPE_FIN, session_id |-> id,
                                seq |-> 0, ack |-> 0, data |-> <<>>]>>
                  /\ exit_code' = 0
             ELSE /\ sent' = <<>>
                  /\ exit_code' = Running
      ]_vars

\* session_close has ended a session that was still NEW
C12_Witness ==
    /\ op = "close"
    /\ state = SESSION_STATE_NEW
    /\ exit_code = 0
    /\ Len(sent) = 1

(***************************************************************************)
(* C13: session_recv ends the process exactly when the packet failed to    *)
(* parse, or has the session's id and is a FIN or of unknown type (in NEW  *)
(* and in ESTABLISHED); in these cases no session field changes and no     *)
(* data is delivered.  A SYN or MSG never ends the process.                *)
(***************************************************************************)
C13_FatalCases ==
    [][ op' = "recv" =>
          /\ exit_code' # Running <=>
                \/ pkt' = NULL
                \/ /\ pkt'.session_id = id
                   /\ pkt'.packet_type \in {PACKET_TYPE_FIN, PACKET_TYPE_UNKNOWN}
          /\ exit_code' # Running =>
                /\ UNCHANGED session
                /\ delivered' = <<>>
      ]_vars

\* a FIN has ended an established session that had data queued
C13_Witness ==
    /\ op = "recv"
    /\ pkt.packet_type = PACKET_TYPE_FIN
    /\ state = SESSION_STATE_ESTABLISHED
    /\ exit_code = 0
    /\ buffer_get_remaining_bytes(outgoing_data) > 0

(***************************************************************************)
(* C15: session_recv of a SYN or MSG runs the send path exactly when, at   *)
(* the end of the call, outgoing_data is not empty and the call has        *)
(* advanced my_seq; it then emits one MSG, after the delivery to the       *)
(* receive callback, with the new my_seq, the new their_seq and the new    *)
(* head of the buffer.  Otherwise the call emits no packet.                *)
(***************************************************************************)
C15_ResendAfterProgress ==
    [][ ( /\ op' = "recv"
          /\ pkt'.packet_type \in {PACKET_TYPE_SYN, PACKET_TYPE_MSG} ) =>
            IF Remaining(outgoing_data') # <<>> /\ my_seq' # my_seq
            THEN /\ sent' = <<[packet_type |-> PACKET_TYPE_MSG, session_id |-> id,
                               seq |-> my_seq', ack |-> their_seq',
                               data |-> Take(Remaining(outgoing_data'),
                                             Min(max_packet_size - packet_get_msg_size,
                                                 Len(Remaining(outgoing_data'))))]>>
                 /\ Len(calls') = Len(delivered') + 1
                 /\ calls'[Len(calls')] = "outgoing_data_callback"
            ELSE sent' = <<>>
      ]_vars

\* one call has delivered data and sent the next MSG
C15_Witness ==
    /\ op = "recv"
    /\ delivered # <<>>
    /\ Len(sent) = 1
    /\ sent[1].packet_type = PACKET_TYPE_MSG
    /\ calls = <<"incoming_data_callback", "outgoing_data_callback">>

(***************************************************************************)
(* C17: a session_do_actions that does not end the process leaves id,      *)
(* state, my_seq, their_seq, is_closed and the unacknowledged bytes of     *)
(* outgoing_data as they were and emits exactly one packet, a SYN in NEW   *)
(* and a MSG in ESTABLISHED; a second session_do_actions right after it    *)
(* emits the same packet.                                                  *)
(***************************************************************************)
C17_DoActionsRetransmits ==
    [][ (op' = "do_actions" /\ exit_code' = Running) =>
          /\ UNCHANGED <<id, state, my_seq, their_seq, is_closed>>
          /\ Remaining(outgoing_data') = Remaining(outgoing_data)
          /\ Len(sent') = 1
          /\ sent'[1].packet_type = IF state = SESSION_STATE_NEW
                                    THEN PACKET_TYPE_SYN ELSE PACKET_TYPE_MSG
          /\ op = "do_actions" => sent' = sent
      ]_vars

\* session_do_actions has sent the unacknowledged head of a partly
\* acknowledged buffer, and nothing beyond it was ever sent
C17_Witness ==
    /\ op = "do_actions"
    /\ exit_code = Running
    /\ state = SESSION_STATE_ESTABLISHED
    /\ outgoing_data.position > 0
    /\ Len(sent[1].data) > 0
    /\ sent_hw = removed + Len(sent[1].data)

(***************************************************************************)
(* C19: my_seq is (its initial value + the number of bytes removed from    *)
(* outgoing_data so far) mod 2^16, so the seq of every MSG emitted is the  *)
(* stream offset of the first byte of its data, the head of the buffer;    *)
(* once ESTABLISHED, their_seq is (the seq of the adopted SYN + the data   *)
(* bytes of the accepted MSGs) mod 2^16.  Bytes leave outgoing_data only   *)
(* from the head and only in session_recv of an accepted MSG, and          *)
(* session_send only appends.                                              *)
(***************************************************************************)
SeqOffsets ==
    /\ my_seq = (isn + removed) % SeqModulus
    /\ state = SESSION_STATE_ESTABLISHED =>
            their_seq = (their_isn + received) % SeqModulus
    /\ \A i \in SentOfType(PACKET_TYPE_MSG) :
            /\ sent[i].seq = (isn + removed) % SeqModulus
            /\ Len(sent[i].data) <= Len(Remaining(outgoing_data))
            /\ sent[i].data = Take(Remaining(outgoing_data), Len(sent[i].data))

C19_SeqIsStreamOffset ==
    [][ /\ SeqOffsets
        /\ SeqOffsets'
        /\ removed' >= removed
        /\ removed' # removed =>
              /\ state = SESSION_STATE_ESTABLISHED
              /\ Received(PACKET_TYPE_MSG)
              /\ pkt'.seq = their_seq
              /\ removed' - removed <= Len(Remaining(outgoing_data))
        /\ IF op' = "send"
           THEN /\ removed' = removed
                /\ Len(Remaining(outgoing_data')) >= Len(Remaining(outgoing_data))
                /\ Take(Remaining(outgoing_data'), Len(Remaining(outgoing_data)))
                      = Remaining(outgoing_data)
           ELSE Remaining(outgoing_data') = Drop(Remaining(outgoing_data), removed' - removed)
      ]_vars

\* both counters have wrapped
C19_Witness ==
    /\ state = SESSION_STATE_ESTABLISHED
    /\ removed >= 3
    /\ my_seq < isn
    /\ received >= 1
    /\ their_seq < their_isn
    /\ buffer_get_remaining_bytes(outgoing_data) > 0

(***************************************************************************)
(* C20: an operation that hands a FIN to the send callback hands over      *)
(* exactly one, as its last packet, and ends the process; after the        *)
(* process has ended no operation runs, so neither callback is invoked     *)
(* again, no field changes, and at most one FIN is sent in a run.          *)
(***************************************************************************)
C20_FinIsLast ==
    [][ /\ ~Terminated
        /\ SentOfType(PACKET_TYPE_FIN)' # {} =>
              /\ Terminated'
              /\ Cardinality(SentOfType(PACKET_TYPE_FIN)') = 1
              /\ sent'[Len(sent')].packet_type = PACKET_TYPE_FIN
      ]_vars

\* session_do_actions has sent a MSG and then the final FIN
C20_Witness ==
    /\ Terminated
    /\ op = "do_actions"
    /\ Len(sent) = 2
    /\ sent[1].packet_type = PACKET_TYPE_MSG
    /\ sent[2].packet_type = PACKET_TYPE_FIN

(***************************************************************************)
(* C14: session_create returns a session in NEW, not closed, with          *)
(* their_seq = 0 and two empty buffers, whose id and my_seq lie in         *)
(* 0..65535, and every value of 0..65535, 65535 included, is the id and    *)
(* the my_seq of some created session (of some value of rand()).           *)
(***************************************************************************)
C14_CreateFullRange ==
    op = "create" =>
        /\ state = SESSION_STATE_NEW
        /\ ~is_closed
        /\ their_seq = 0
        /\ Remaining(incoming_data) = <<>>
        /\ Remaining(outgoing_data) = <<>>
        /\ id \in 0..(SeqModulus - 1)
        /\ my_seq \in 0..(SeqModulus - 1)
        /\ \A v \in {0, SeqModulus - 2, SeqModulus - 1} :
              \E r \in RandValues : rand_mod(r) = v

(***************************************************************************)
(* C16: a MSG that session_recv accepted earlier in the run, handed to     *)
(* session_recv again, removes no byte of the outgoing buffer, leaves      *)
(* my_seq alone and delivers no data.                                      *)
(***************************************************************************)
C16_AckAppliedOnce ==
    [][ (op' = "recv" /\ replay # NoPacket /\ pkt' = replay) =>
            /\ Remaining(outgoing_data') = Remaining(outgoing_data)
            /\ my_seq' = my_seq
            /\ delivered' = <<>> ]_vars

(***************************************************************************)
(* C18: when session_do_actions is called again and again, the transport   *)
(* delivers and the peer answers, every byte passed to session_send is     *)
(* eventually removed from the outgoing buffer, and once session_close has *)
(* been called (in SESSION_STATE_NEW with bytes queued too) the final FIN  *)
(* is eventually sent and the process exits with status 0.                 *)
(***************************************************************************)
\* the number of bytes passed to session_send so far
Queued == removed + buffer_get_remaining_bytes(outgoing_data)

FinalFinSent ==
    /\ exit_code = 0
    /\ sent # <<>>
    /\ sent[Len(sent)].packet_type = PACKET_TYPE_FIN

C18_EventuallyDrained ==
    /\ \A n \in 1..MaxStream : (Queued >= n) ~> (removed >= n)
    /\ is_closed ~> FinalFinSent

\* the session was closed with bytes queued, the peer has acknowledged them
\* all, and session_do_actions has sent the final FIN and exited
C18_Witness ==
    /\ op = "do_actions"
    /\ FinalFinSent
    /\ removed >= 3
    /\ buffer_get_remaining_bytes(outgoing_data) = 0
    /\ peer.ack = my_seq

====
